---- MODULE Spec2Model ----
(***************************************************************************)
(* Model of pulsera/src/main.cpp: ESP32-C3 firmware that brings up three   *)
(* I2C sensors, keeps an MQTT session alive and, every 2 s, reads the      *)
(* sensors and publishes telemetry.                                        *)
(*                                                                         *)
(* Time is in milliseconds.  Floats read from the sensors are fixed-point  *)
(* integers (centi-units for the HTU21D, milli-g for the MMA8452Q); the    *)
(* float beatsPerMinute is the exact fraction 60000/delta.  The clock stays *)
(* below 2^31 ms (24.8 days), so millis() has not wrapped and every time   *)
(* fits both unsigned long and long.                                       *)
(***************************************************************************)
EXTENDS Integers, Sequences, FiniteSets, TLC

\* ------------------------------------------------------------- bounds
\* Horizon of the clock: a step that would move the clock past it is not
\* taken, so a session is followed up to this time.
MaxTime == 5100
\* Horizon of the sessions of SpecLong.
LongTime == 10100
\* Association completes during poll 0..MaxEarlyPoll of setup_wifi, or not
\* within the WIFI_TRIES polls at all.
MaxEarlyPoll == 0
\* Largest beat delta enumerated by the estimator specification SpecGate.
MaxDelta == 3100
\* Grid of accelerations of SpecOrient: the multiples of GridStep milli-g up
\* to GridSpan of them on either side of zero, on each axis.
GridStep == 500
GridSpan == 2
\* Horizon of the sessions of SpecCadence: eleven ticks.
CadenceTime == 22100
\* Horizon of the sessions of SpecOutage: a tick, a backoff, the late tick
\* and the tick after it.
OutageTime == 9100
\* Horizon of the sessions of SpecOffline: the 15 s of setup_wifi and two
\* backoffs.
OfflineTime == 25100

\* ---------------------------------------------------- program constants
RATE_SIZE == 4
WIFI_TRIES == 30
WIFI_SETTLE_MS == 10
WIFI_POLL_MS == 500
BACKOFF_MS == 5000
TICK_MS == 2000
RESUMEN_EVERY == 10
ESTADO_EVERY == 5
FINGER_MIN == 50000
BPM_MAX == 255
BPM_MIN == 20
ACCEL_LIMIT == 4000
MOVE_LIMIT == 1500
FLAT_LIMIT == 500

\* ------------------------------------------------------- environment
\* Amounts by which the clock advances between two scheduler iterations.
IdleSteps == {2000, 2001}
\* Time spent in a tick before the estimator reads millis() (line 178), and
\* between its two reads of millis() (lines 178 and 179).
BeatTimings == {<<0, 0>>, <<0, 1>>, <<900, 0>>}
\* IR counts returned by getIR().
IrValues == {10000, 49999, 50000, 80000}
\* HTU21D readings in hundredths; nan is a non-finite reading.
NaN == [nan |-> TRUE, v |-> 0]
Num(c) == [nan |-> FALSE, v |-> c]
TempValues == {NaN, Num(12500)}
HumValues == {Num(-1), Num(0)}
\* Accelerometer samples, in milli-g.
AccelValues == {<<10, -20, 1000>>, <<1200, -1300, 1100>>, <<4001, 0, -600>>}
\* Values a float-to-int conversion of an infinite float may produce.
InfToInt == {2147483647, -2147483647 - 1}

VARIABLES
    horizon,        \* the time up to which the session is followed
    pc,             \* position of the single execution context
    ret,            \* where reconnect() returns to
    clock,          \* monotonic time since boot, ms (Unfollowed: not followed)
    wifi,           \* WiFi.status() == WL_CONNECTED
    connected,      \* client.connected()
    htu21d_ok, max30102_ok, accel_ok,
    rates, rateSpot, lastBeat, beatsPerMinute, beatAvg,
    lastMsg, contador,
    step,           \* the program step executed last
    beat,           \* checkForBeat returned true in the last program step
    pubs,           \* the publish calls of the last program step, in order
    upto,           \* how many of them were issued while the link was up
    sent,           \* the payloads of that step that reached the broker
    online,         \* a broker connect has succeeded in this session
    tickAt,         \* clock at the last acquisition tick (-1: none yet)
    prevTickAt      \* clock at the tick before it (-1: none)

vars == <<horizon, pc, ret, clock, wifi, connected, htu21d_ok, max30102_ok, accel_ok,
          rates, rateSpot, lastBeat, beatsPerMinute, beatAvg, lastMsg,
          contador, step, beat, pubs, upto, sent, online, tickAt,
          prevTickAt>>

flags == <<htu21d_ok, max30102_ok, accel_ok>>
heart == <<rates, rateSpot, lastBeat, beatsPerMinute, beatAvg>>
sched == <<lastMsg, contador, tickAt, prevTickAt>>

\* ------------------------------------------------------------ helpers
Abs(a) == IF a < 0 THEN -a ELSE a

\* millis(): the clock as an unsigned long (no wrap below 2^31).
Millis(t) == t
\* delay(ms): the clock after the call.
Delay(t, ms) == t + ms

Msg(t, p) == [topic |-> t, payload |-> p]

\* PubSubClient::publish writes the packet only when the client is connected.
PublishAlways(up, m) == <<m>>
Publish(up, m) == IF up THEN <<m>> ELSE <<>>

\* What reaches the broker of the calls msgs when the link (up at the start
\* of the step iff c) is lost after k of them.
RECURSIVE WireFrom(_, _, _, _)
WireFrom(c, msgs, k, i) ==
    IF i > Len(msgs) THEN <<>>
    ELSE Publish(c /\ i <= k, msgs[i]) \o WireFrom(c, msgs, k, i + 1)

\* The link is lost, within a step, before its first publish call or not at
\* all.
DropPoints(msgs) == {0, Len(msgs)}

\* The publish calls msgs of one program step, k of them with the link up.
Emit(c, msgs, k) ==
    /\ k \in DropPoints(msgs)
    /\ k <= Len(msgs)
    /\ (~c => k = 0)
    /\ pubs' = msgs
    /\ upto' = k
    /\ sent' = WireFrom(c, msgs, k, 1)
    /\ connected' = (c /\ k = Len(msgs))

Topics(msgs) == {msgs[i].topic : i \in 1..Len(msgs)}
Count(msgs, t) == Cardinality({i \in 1..Len(msgs) : msgs[i].topic = t})
CountMsg(msgs, m) == Cardinality({i \in 1..Len(msgs) : msgs[i] = m})

\* "Sensores activos: ..." (lines 108-112 and 136-140).
Resumen(h, m, a) ==
    "Sensores activos: "
        \o (IF h THEN "HTU21D " ELSE "")
        \o (IF m THEN "MAX30105 " ELSE "")
        \o (IF a THEN "MMA8452Q " ELSE "")
        \o (IF ~h /\ ~m /\ ~a THEN "NINGUNO" ELSE "")

\* --------------------------------------------------------------- Init
Boot ==
    /\ pc = "setup_wifi"
    /\ ret = "bringup"
    /\ clock = 0
    /\ wifi = FALSE
    /\ connected = FALSE
    /\ htu21d_ok = FALSE /\ max30102_ok = FALSE /\ accel_ok = FALSE
    /\ rates = [i \in 0..(RATE_SIZE - 1) |-> 0]
    /\ rateSpot = 0
    /\ lastBeat = 0
    /\ beatsPerMinute = [n |-> 0, d |-> 1]
    /\ beatAvg = 0
    /\ lastMsg = 0
    /\ contador = 0
    /\ step = "boot"
    /\ beat = FALSE
    /\ pubs = <<>>
    /\ upto = 0
    /\ sent = <<>>
    /\ online = FALSE
    /\ tickAt = -1
    /\ prevTickAt = -1

Init == horizon = MaxTime /\ Boot

\* A step that calls publish nowhere.
Silent == /\ pubs' = <<>> /\ upto' = 0 /\ sent' = <<>> /\ beat' = FALSE

\* ------------------------------------------------------------- setup
\* setup_wifi(): n polls of 500 ms; w is the association state on return.
SetupWifi(n, w) ==
    /\ pc = "setup_wifi"
    /\ n \in (0..MaxEarlyPoll) \cup {WIFI_TRIES}
    /\ (n < WIFI_TRIES => w)
    /\ Delay(clock, WIFI_SETTLE_MS + n * WIFI_POLL_MS) <= horizon
    /\ clock' = Delay(clock, WIFI_SETTLE_MS + n * WIFI_POLL_MS)
    /\ wifi' = w
    /\ pc' = "reconnect"
    /\ ret' = "bringup"
    /\ step' = "setup_wifi"
    /\ Silent
    /\ UNCHANGED horizon
    /\ UNCHANGED <<connected, flags, heart, sched, online>>

\* reconnect(), one pass of the while body with connect() succeeding.
ConnectOkSilent(k) ==
    /\ pc = "reconnect"
    /\ ~connected
    /\ wifi
    /\ Emit(TRUE, <<>>, 0)
    /\ online' = TRUE
    /\ step' = "connect"
    /\ beat' = FALSE
    /\ UNCHANGED horizon
    /\ UNCHANGED <<pc, ret, clock, wifi, flags, heart, sched>>
ConnectOk(k) ==
    /\ pc = "reconnect"
    /\ ~connected
    /\ wifi
    /\ Emit(TRUE, <<Msg("sensores/status",
                       "ESP32 conectado - Iniciando lecturas de sensores")>>, k)
    /\ online' = TRUE
    /\ step' = "connect"
    /\ beat' = FALSE
    /\ UNCHANGED horizon
    /\ UNCHANGED <<pc, ret, clock, wifi, flags, heart, sched>>

\* reconnect(), line 53 with connect() failing.
ConnectFail ==
    /\ pc = "reconnect"
    /\ ~connected
    /\ pc' = "backoff"
    /\ step' = "connect_failed"
    /\ Silent
    /\ UNCHANGED horizon
    /\ UNCHANGED <<ret, clock, wifi, connected, flags, heart, sched, online>>

\* reconnect(), line 56: delay(5000), then the while condition again.
Backoff ==
    /\ pc = "backoff"
    /\ Delay(clock, BACKOFF_MS) <= horizon
    /\ clock' = Delay(clock, BACKOFF_MS)
    /\ pc' = "reconnect"
    /\ step' = "backoff"
    /\ Silent
    /\ UNCHANGED horizon
    /\ UNCHANGED <<ret, wifi, connected, flags, heart, sched, online>>

\* reconnect(): the while condition is false, the function returns.
ReconnectReturn ==
    /\ pc = "reconnect"
    /\ connected
    /\ pc' = ret
    /\ step' = "reconnected"
    /\ Silent
    /\ UNCHANGED horizon
    /\ UNCHANGED <<ret, clock, wifi, connected, flags, heart, sched, online>>

InitMsg(ok, topic, good, bad) ==
    IF ok THEN Msg(topic, good) ELSE Msg("sensores/error", bad)

\* setup() from line 72: the three begin() calls return h, m and a.
Bringup(h, m, a, k) ==
    /\ pc = "bringup"
    /\ htu21d_ok' = h
    /\ max30102_ok' = m
    /\ accel_ok' = a
    /\ Emit(connected,
            << Msg("sensores/info", "Inicializando sensores en ESP32-C3"),
               Msg("sensores/config", "I2C: SDA=GPIO6, SCL=GPIO7, 100kHz"),
               InitMsg(h, "sensores/htu21d",
                       "HTU21D inicializado correctamente",
                       "HTU21D no encontrado"),
               InitMsg(m, "sensores/max30105",
                       "MAX30105 inicializado correctamente",
                       "MAX30105 no encontrado"),
               InitMsg(a, "sensores/mma8452q",
                       "MMA8452Q inicializado correctamente - Escala 2g",
                       "MMA8452Q no encontrado"),
               Msg("sensores/resumen", Resumen(h, m, a)) >>, k)
    /\ pc' = "loop"
    /\ step' = "bringup"
    /\ beat' = FALSE
    /\ UNCHANGED horizon
    /\ UNCHANGED <<ret, clock, wifi, heart, sched, online>>

\* --------------------------------------------------------- scheduler
\* loop(), lines 118-120: client.connected() finds the link alive or lost.
LoopCheck(alive) ==
    /\ pc = "loop"
    /\ connected' = (connected /\ alive)
    /\ IF connected'
         THEN pc' = "sched" /\ ret' = ret
         ELSE pc' = "reconnect" /\ ret' = "sched"
    /\ step' = "loop"
    /\ Silent
    /\ UNCHANGED horizon
    /\ UNCHANGED <<clock, wifi, flags, heart, sched, online>>

\* now - lastMsg > 2000, in unsigned long arithmetic (line 128).
\* For now < last the unsigned difference wraps to more than 2^31.
TickDueAtLeast(now, last) == IF now >= last THEN now - last >= TICK_MS ELSE TRUE
TickDue(now, last) == IF now >= last THEN now - last > TICK_MS ELSE TRUE

\* lastMsg = now (line 129).
ReplayTick(now, last) == last + TICK_MS
NextLastMsg(now, last) == now

\* contador++ (line 130).
WrapContador(c) == (c + 1) % ESTADO_EVERY
NextContador(c) == c + 1

\* contador % 10 == 1 (line 135) and contador % 5 == 0 (line 262).
ResumenDueTwice(c) == c % ESTADO_EVERY = 1
ResumenDue(c) == c % RESUMEN_EVERY = 1
EstadoDue(c) == c % ESTADO_EVERY = 0

\* loop(), lines 121-128 when the tick is not due.
LoopIdle ==
    /\ pc = "sched"
    /\ ~TickDue(Millis(clock), lastMsg)
    /\ pc' = "loop"
    /\ step' = "idle"
    /\ Silent
    /\ UNCHANGED horizon
    /\ UNCHANGED <<ret, clock, wifi, connected, flags, heart, sched, online>>

\* loop(), lines 126-143: the tick fires.
TickHead(k) ==
    /\ pc = "sched"
    /\ TickDue(Millis(clock), lastMsg)
    /\ lastMsg' = NextLastMsg(Millis(clock), lastMsg)
    /\ contador' = NextContador(contador)
    /\ prevTickAt' = tickAt
    /\ tickAt' = clock
    /\ Emit(connected,
            <<Msg("sensores/contador", ToString(contador'))>>
              \o (IF ResumenDue(contador')
                    THEN <<Msg("sensores/resumen",
                               Resumen(htu21d_ok, max30102_ok, accel_ok))>>
                    ELSE <<>>), k)
    /\ pc' = "tick_htu"
    /\ step' = "tick"
    /\ beat' = FALSE
    /\ UNCHANGED horizon
    /\ UNCHANGED <<ret, clock, wifi, flags, heart, online>>

\* ------------------------------------------------------------ HTU21D
\* String(value, decimals) of a fixed-point value with that many decimals.
Pad(n, w) ==
    IF w = 3 /\ n < 10 THEN "00" \o ToString(n)
    ELSE IF (w = 3 /\ n < 100) \/ (w = 2 /\ n < 10) THEN "0" \o ToString(n)
    ELSE ToString(n)
Fixed(v, w) ==
    LET unit == IF w = 3 THEN 1000 ELSE 100
    IN  (IF v < 0 THEN "-" ELSE "")
            \o ToString(Abs(v) \div unit) \o "." \o Pad(Abs(v) % unit, w)

\* Lines 151 and 157.
TempValid(t) == ~t.nan /\ t.v >= -4000 /\ t.v <= 12500
HumValid(h) == ~h.nan /\ h.v >= 0 /\ h.v <= 10000

\* Lines 147-164: measure() returns meas, the getters return t and h.
HtuRead(meas, t, h) ==
    IF ~meas THEN <<Msg("sensores/error", "HTU21D: fallo en medicion")>>
    ELSE << IF TempValid(t)
              THEN Msg("sensores/temperatura", Fixed(t.v, 2))
              ELSE Msg("sensores/error", "HTU21D: temperatura invalida"),
            IF HumValid(h)
              THEN Msg("sensores/humedad", Fixed(h.v, 2))
              ELSE Msg("sensores/error", "HTU21D: humedad invalida") >>

\* Lines 146-165: the section is skipped when the sensor is not healthy.
HtuUnguarded(ok, meas, t, h) == HtuRead(meas, t, h)
HtuMsgs(ok, meas, t, h) == IF ok THEN HtuRead(meas, t, h) ELSE <<>>

TickHtu(meas, t, h, k) ==
    /\ pc = "tick_htu"
    /\ Emit(connected, HtuMsgs(htu21d_ok, meas, t, h), k)
    /\ pc' = "tick_max"
    /\ step' = "htu"
    /\ beat' = FALSE
    /\ UNCHANGED horizon
    /\ UNCHANGED <<ret, clock, wifi, flags, heart, sched, online>>

\* ----------------------------------------------------------- MAX30105
\* long delta = millis() - lastBeat (line 178): the unsigned difference read
\* as a long is now - last for all times below 2^31.
BeatDeltaHalved(now, last) == (now - last) \div 2
BeatDelta(now, last) == now - last

\* beatsPerMinute = 60 / (delta / 1000.0) (line 181), as the fraction n/d;
\* d = 0 is +infinity.
Bpm(delta) == [n |-> 60000, d |-> delta]

\* beatsPerMinute < 255 and beatsPerMinute > 20 (line 183).
Below(b, lim) ==
    IF b.d > 0 THEN b.n < lim * b.d
    ELSE IF b.d < 0 THEN b.n > lim * b.d
    ELSE FALSE
Above(b, lim) ==
    IF b.d > 0 THEN b.n > lim * b.d
    ELSE IF b.d < 0 THEN b.n < lim * b.d
    ELSE TRUE
AcceptedInclusive(b) == Below(b, BPM_MAX + 1) /\ Above(b, BPM_MIN - 1)
AcceptedNoFloor(b) == Below(b, BPM_MAX)
Accepted(b) == Below(b, BPM_MAX) /\ Above(b, BPM_MIN)

\* (int)beatsPerMinute: truncation toward zero; the conversion of an
\* infinite value is undefined and yields ub.
ToInt(b, ub) ==
    IF b.d > 0 THEN b.n \div b.d
    ELSE IF b.d < 0 THEN -(b.n \div (-b.d))
    ELSE ub

\* (byte)beatsPerMinute (line 185).
ToByte(b) == ToInt(b, 0) % 256

\* rates[rateSpot++] = (byte)beatsPerMinute; rateSpot %= RATE_SIZE
\* (lines 185-186).
Store(r, spot, b) == [r EXCEPT ![spot] = ToByte(b)]
NextSpotNoWrap(spot) == spot + 1
NextSpot(spot) == ((spot + 1) % 256) % RATE_SIZE

\* Lines 189-192.
RECURSIVE SumTo(_, _)
SumTo(r, x) == IF x < 0 THEN 0 ELSE r[x] + SumTo(r, x - 1)
AvgFilled(r) ==
    LET filled == Cardinality({x \in 0..(RATE_SIZE - 1) : r[x] # 0})
    IN  SumTo(r, RATE_SIZE - 1) \div (IF filled = 0 THEN 1 ELSE filled)
Avg(r) == SumTo(r, RATE_SIZE - 1) \div RATE_SIZE

\* Line 197.
FingerInclusive(ir) == IF ir <= FINGER_MIN THEN "no_detectado" ELSE "detectado"
FingerStatus(ir) == IF ir < FINGER_MIN THEN "no_detectado" ELSE "detectado"

\* Lines 205-208.
HeartJson(ir, bpm, avg, finger) ==
    "{\"ir\":" \o ToString(ir) \o ",\"bpm\":" \o ToString(bpm)
        \o ",\"bpm_avg\":" \o ToString(avg)
        \o ",\"finger\":\"" \o finger \o "\"}"

\* Lines 168-210 with a healthy sensor: getIR returns ir, checkForBeat
\* returns b; d1 ms pass before line 178 and d2 ms between lines 178 and 179.
OpticalSection(ir, b, d1, d2, ub, k) ==
    LET t1 == clock + d1
        bpm == IF b THEN Bpm(BeatDelta(Millis(t1), lastBeat))
               ELSE beatsPerMinute
        acc == b /\ Accepted(bpm)
        r2 == IF acc THEN Store(rates, rateSpot, bpm) ELSE rates
        avg2 == IF acc THEN Avg(r2) ELSE beatAvg
        finger == FingerStatus(ir)
    IN  /\ (bpm.d # 0 => ub = 0)
        /\ (bpm.d = 0 => ub \in InfToInt)
        /\ clock' = t1 + d2
        /\ lastBeat' = IF b THEN Millis(t1 + d2) ELSE lastBeat
        /\ beatsPerMinute' = bpm
        /\ rates' = r2
        /\ rateSpot' = IF acc THEN NextSpot(rateSpot) ELSE rateSpot
        /\ beatAvg' = avg2
        /\ beat' = b
        /\ Emit(connected,
                << Msg("sensores/ir_value", ToString(ir)),
                   Msg("sensores/bpm", ToString(ToInt(bpm, ub))),
                   Msg("sensores/bpm_avg", ToString(avg2)),
                   Msg("sensores/finger_status", finger),
                   Msg("sensores/heart_data",
                       HeartJson(ir, ToInt(bpm, ub), avg2, finger)) >>, k)

TickMax(ir, b, d1, d2, ub, k) ==
    /\ pc = "tick_max"
    /\ max30102_ok
    /\ <<d1, d2>> \in BeatTimings
    /\ (~b => d1 = 0 /\ d2 = 0)
    /\ clock + d1 + d2 <= horizon
    /\ OpticalSection(ir, b, d1, d2, ub, k)
    /\ pc' = "tick_acc"
    /\ step' = "max"
    /\ UNCHANGED horizon
    /\ UNCHANGED <<ret, wifi, flags, sched, online>>

TickMaxSkip ==
    /\ pc = "tick_max"
    /\ ~max30102_ok
    /\ pc' = "tick_acc"
    /\ step' = "max"
    /\ beat' = FALSE
    /\ Emit(connected, <<>>, 0)
    /\ UNCHANGED horizon
    /\ UNCHANGED <<ret, clock, wifi, flags, heart, sched, online>>

\* ----------------------------------------------------------- MMA8452Q
\* The integer nearest to the exact square root of n.
RECURSIVE RootIn(_, _, _)
RootIn(n, lo, hi) ==
    IF lo >= hi THEN lo
    ELSE LET mid == (lo + hi) \div 2
         IN  IF (2 * mid + 1) * (2 * mid + 1) > 4 * n
               THEN RootIn(n, lo, mid)
               ELSE RootIn(n, mid + 1, hi)
Root(n) == RootIn(n, 0, 2 * ACCEL_LIMIT + n \div (2 * ACCEL_LIMIT))

\* A reading v / 1000 g is a 32-bit float exactly when v / 125 is an integer
\* (an eighth of a g); squares and sums of such readings are exact as well.
Dyadic(v) == v % 125 = 0

\* Line 233 computes in 32-bit floats.  Three inputs rounded to float, three
\* products and two sums (fused or not, as the compiler contracts them) and
\* the root, each rounded again, leave magnitud within 3.5 * 2^-24 of the
\* exact root, relatively; with exact inputs only the root is rounded, within
\* 2^-24.  ulps is twice that error in units of 2^-24.  The exact root lies
\* within the error of the value b / 2 when the squares differ by
\* d = |4n - b * b| with d * 2^24 <= ulps * b * b, for a root of any size;
\* on which side of b / 2 the float falls then depends on the roundings the
\* build performs.  The quotients keep the comparison within 32-bit integers.
WithinRounding(d, sq, ulps) == d <= sq \div (16777216 \div ulps)

\* Line 233, in milli-g: the values float magnitud can take, each with what
\* String(magnitud, 3) shows of it (lines 234, 248) and the outcome of
\* magnitud > 1.5 (line 245).  With exact inputs at exactly 1.5 g the float
\* is 1.5 and the comparison fails.
Magnitud(x, y, z) ==
    LET n == x * x + y * y + z * z
        r == Root(n)
        dn == 2 * r - 1
        up == 2 * r + 1
        lim == 2 * MOVE_LIMIT
        exact == Dyadic(x) /\ Dyadic(y) /\ Dyadic(z)
        ulps == IF exact THEN 2 ELSE 7
        shown == {r}
            \cup (IF r > 0 /\ WithinRounding(Abs(4 * n - dn * dn), dn * dn, ulps)
                    THEN {r - 1} ELSE {})
            \cup (IF WithinRounding(Abs(4 * n - up * up), up * up, ulps)
                    THEN {r + 1} ELSE {})
        above == IF ~exact /\ WithinRounding(Abs(4 * n - lim * lim), lim * lim, ulps)
                   THEN BOOLEAN
                   ELSE {4 * n > lim * lim}
    IN  [milli : shown, moving : above]

\* Lines 222-230.
AxisMsg(name, v) ==
    IF v >= -ACCEL_LIMIT /\ v <= ACCEL_LIMIT
      THEN <<Msg("sensores/accel_" \o name, Fixed(v, 3))>>
      ELSE <<>>

\* Lines 237-241.
OrientacionWeak(x, y, z) ==
    IF Abs(z) >= Abs(x) /\ Abs(z) >= Abs(y)
      THEN IF z > FLAT_LIMIT THEN "boca_arriba"
           ELSE IF z < -FLAT_LIMIT THEN "boca_abajo"
           ELSE "indefinida"
      ELSE "indefinida"
Orientacion(x, y, z) ==
    IF Abs(z) > Abs(x) /\ Abs(z) > Abs(y)
      THEN IF z > FLAT_LIMIT THEN "boca_arriba"
           ELSE IF z < -FLAT_LIMIT THEN "boca_abajo"
           ELSE "indefinida"
      ELSE "indefinida"

\* Line 245.
Movimiento(mag) == IF mag.moving THEN "SI" ELSE "NO"

\* Line 248.
AccelJson(x, y, z, mag) ==
    "{\"x\":" \o Fixed(x, 3) \o ",\"y\":" \o Fixed(y, 3)
        \o ",\"z\":" \o Fixed(z, 3)
        \o ",\"mag\":" \o Fixed(mag.milli, 3) \o "}"

\* Lines 214-253: available() returns avail, the sample read is s and the
\* float magnitude computed from it is mag.
AccelRead(avail, s, mag) ==
    IF ~avail THEN <<Msg("sensores/error", "MMA8452Q: sin nuevos datos")>>
    ELSE LET x == s[1]
             y == s[2]
             z == s[3]
         IN  AxisMsg("x", x) \o AxisMsg("y", y) \o AxisMsg("z", z)
               \o << Msg("sensores/accel_mag", Fixed(mag.milli, 3)),
                     Msg("sensores/orientacion", Orientacion(x, y, z)),
                     Msg("sensores/movimiento", Movimiento(mag)),
                     Msg("sensores/accel_datos", AccelJson(x, y, z, mag)) >>

\* Lines 213-254.
AccelNever(ok, avail, s, mag) == <<>>
AccelMsgs(ok, avail, s, mag) == IF ok THEN AccelRead(avail, s, mag) ELSE <<>>

TickAcc(avail, s, k) ==
    /\ pc = "tick_acc"
    /\ \E mag \in Magnitud(s[1], s[2], s[3]) :
          Emit(connected, AccelMsgs(accel_ok, avail, s, mag), k)
    /\ pc' = "tick_sys"
    /\ step' = "acc"
    /\ beat' = FALSE
    /\ UNCHANGED horizon
    /\ UNCHANGED <<ret, clock, wifi, flags, heart, sched, online>>

\* ------------------------------------------------------- system state
\* WiFi.localIP().toString() (line 257).
LocalIp(w) == IF w THEN "192.168.1.50" ELSE "0.0.0.0"

Estado(ok) == IF ok THEN "OK" ELSE "ERROR"

\* Lines 263-265.
EstadoMsgs(h, m, a) ==
    << Msg("sensores/estado_htu21d", Estado(h)),
       Msg("sensores/estado_max30105", Estado(m)),
       Msg("sensores/estado_mma8452q", Estado(a)) >>

\* Lines 257-266: WiFi.status() returns w.
TickSys(w, k) ==
    /\ pc = "tick_sys"
    /\ Emit(connected,
            << Msg("sistema/wifi_ip", LocalIp(w)),
               Msg("sistema/wifi_status",
                   IF w THEN "conectado" ELSE "desconectado"),
               Msg("sistema/uptime", ToString(Millis(clock) \div 1000)) >>
              \o (IF EstadoDue(contador)
                    THEN EstadoMsgs(htu21d_ok, max30102_ok, accel_ok)
                    ELSE <<>>), k)
    /\ (connected' => w)
    /\ wifi' = w
    /\ pc' = "loop"
    /\ step' = "sys"
    /\ beat' = FALSE
    /\ UNCHANGED horizon
    /\ UNCHANGED <<ret, clock, flags, heart, sched, online>>

\* -------------------------------------------------------- environment
\* Time passes while the scheduler iterates (client.loop(), line 121).
Advance(d) ==
    /\ pc = "sched"
    /\ clock + d <= horizon
    /\ clock' = clock + d
    /\ UNCHANGED horizon
    /\ UNCHANGED <<pc, ret, wifi, connected, flags, heart, sched, step, beat,
                   pubs, upto, sent, online>>

\* The broker connection is lost while reconnect() runs.
LinkDrop ==
    /\ pc = "reconnect"
    /\ connected
    /\ connected' = FALSE
    /\ UNCHANGED horizon
    /\ UNCHANGED <<pc, ret, clock, wifi, flags, heart, sched, step, beat,
                   pubs, upto, sent, online>>

\* The station loses its association, and the broker connection with it.
WifiDown ==
    /\ pc = "reconnect"
    /\ wifi
    /\ wifi' = FALSE
    /\ connected' = FALSE
    /\ UNCHANGED horizon
    /\ UNCHANGED <<pc, ret, clock, flags, heart, sched, step, beat, pubs,
                   upto, sent, online>>

\* The station associates in the background.
WifiUp ==
    /\ pc = "reconnect"
    /\ ~wifi
    /\ wifi' = TRUE
    /\ UNCHANGED horizon
    /\ UNCHANGED <<pc, ret, clock, connected, flags, heart, sched, step,
                   beat, pubs, upto, sent, online>>

\* ------------------------------------------------------ specification
Program ==
    \/ /\ pc = "setup_wifi"
       /\ \E n \in 0..WIFI_TRIES, w \in BOOLEAN : SetupWifi(n, w)
    \/ \E k \in 0..1 : ConnectOk(k)
    \/ ConnectFail
    \/ Backoff
    \/ ReconnectReturn
    \/ /\ pc = "bringup"
       /\ \E h, m, a \in BOOLEAN, k \in 0..6 : Bringup(h, m, a, k)
    \/ \E alive \in BOOLEAN : LoopCheck(alive)
    \/ LoopIdle
    \/ \E k \in 0..2 : TickHead(k)
    \/ /\ pc = "tick_htu"
       /\ \E meas \in BOOLEAN, t \in TempValues, h \in HumValues, k \in 0..2 :
             TickHtu(meas, t, h, k)
    \/ /\ pc = "tick_max"
       /\ \E ir \in IrValues, b \in BOOLEAN, d \in BeatTimings,
             ub \in InfToInt \cup {0}, k \in 0..5 :
             TickMax(ir, b, d[1], d[2], ub, k)
    \/ TickMaxSkip
    \/ /\ pc = "tick_acc"
       /\ \E avail \in BOOLEAN, s \in AccelValues, k \in 0..7 :
             TickAcc(avail, s, k)
    \/ \E w \in BOOLEAN, k \in 0..6 : TickSys(w, k)

Environment ==
    \/ \E d \in IdleSteps : Advance(d)
    \/ LinkDrop
    \/ WifiDown
    \/ WifiUp

Next == Program \/ Environment

Spec == Init /\ [][Next]_vars

\* Sessions with outages: association may fail for the 30 polls of
\* setup_wifi, connect() may fail, the broker connection may be lost.  Every
\* sensor read succeeds with the same values and no beat is detected.
ProgramOutage ==
    \/ \E w \in BOOLEAN : SetupWifi(IF w THEN 0 ELSE WIFI_TRIES, w)
    \/ \E k \in 0..1 : ConnectOk(k)
    \/ ConnectFail
    \/ Backoff
    \/ ReconnectReturn
    \/ /\ pc = "bringup"
       /\ \E h \in BOOLEAN, k \in 0..6 : Bringup(h, TRUE, TRUE, k)
    \/ \E alive \in BOOLEAN : LoopCheck(alive)
    \/ LoopIdle
    \/ \E k \in 0..2 : TickHead(k)
    \/ \E k \in 0..2 : TickHtu(TRUE, Num(2150), Num(4000), k)
    \/ \E k \in 0..5 : TickMax(80000, FALSE, 0, 0, 0, k)
    \/ \E k \in 0..7 : TickAcc(TRUE, <<10, -20, 1000>>, k)
    \/ \E k \in 0..6 : TickSys(TRUE, k)

\* Followed for OutageTime, with scheduler iterations of 2000 and 2001 ms.
InitOutage == horizon = OutageTime /\ Boot

NextOutage ==
    \/ ProgramOutage
    \/ \E d \in IdleSteps : Advance(d)
    \/ LinkDrop

SpecOutage == InitOutage /\ [][NextOutage]_vars

\* Followed for OfflineTime: the station may associate in the background
\* after setup_wifi gave up, or never.  While the station is not associated
\* connect() fails and reconnect() turns in its while loop (lines 52-58),
\* where the program reads the time nowhere: once a delay(5000) ends past
\* OfflineTime the time is no longer followed (clock = Unfollowed, which
\* stands for every later time) and the loop is followed on, by its control
\* location alone.
InitOffline == horizon = OfflineTime /\ Boot

Unfollowed == -1
Followed == clock # Unfollowed

\* reconnect(), line 56, ending at a time that is not followed.
BackoffLater ==
    /\ pc = "backoff"
    /\ ~wifi
    /\ ~Followed \/ Delay(clock, BACKOFF_MS) > horizon
    /\ clock' = Unfollowed
    /\ pc' = "reconnect"
    /\ step' = "backoff"
    /\ Silent
    /\ UNCHANGED horizon
    /\ UNCHANGED <<ret, wifi, connected, flags, heart, sched, online>>

ProgramOffline ==
    \/ \E w \in BOOLEAN : SetupWifi(IF w THEN 0 ELSE WIFI_TRIES, w)
    \/ \E k \in 0..1 : ConnectOk(k)
    \/ ConnectFail
    \/ Followed /\ Backoff
    \/ BackoffLater
    \/ ReconnectReturn
    \/ /\ pc = "bringup"
       /\ \E h \in BOOLEAN, k \in 0..6 : Bringup(h, TRUE, TRUE, k)
    \/ \E alive \in BOOLEAN : LoopCheck(alive)
    \/ LoopIdle
    \/ \E k \in 0..2 : TickHead(k)
    \/ \E k \in 0..2 : TickHtu(TRUE, Num(2150), Num(4000), k)
    \/ \E k \in 0..5 : TickMax(80000, FALSE, 0, 0, 0, k)
    \/ \E k \in 0..7 : TickAcc(TRUE, <<10, -20, 1000>>, k)
    \/ \E k \in 0..6 : TickSys(TRUE, k)

NextOffline ==
    \/ ProgramOffline
    \/ Advance(TICK_MS + 1)
    \/ Followed /\ WifiUp

SpecOffline == InitOffline /\ [][NextOffline]_vars

\* The execution context always runs: the program takes its next step.
FairSpec == SpecOffline /\ WF_vars(ProgramOffline)

\* Sessions with nominal timing, followed for LongTime: association is
\* immediate and holds, connect() succeeds, a scheduler iteration takes
\* TICK_MS + 1 ms or no time, and a tick takes no time.  Sensor results, beats
\* and losses of the broker connection are as free as in Spec.
InitLong == horizon = LongTime /\ Boot

NextLong ==
    \/ SetupWifi(0, TRUE)
    \/ \E k \in 0..1 : ConnectOk(k)
    \/ ReconnectReturn
    \/ LinkDrop
    \/ /\ pc = "bringup"
       /\ \E h, m, a \in BOOLEAN, k \in 0..6 : Bringup(h, m, a, k)
    \/ \E alive \in BOOLEAN : LoopCheck(alive)
    \/ LoopIdle
    \/ \E k \in 0..2 : TickHead(k)
    \/ /\ pc = "tick_htu"
       /\ \E meas \in BOOLEAN, t \in TempValues, h \in HumValues, k \in 0..2 :
             TickHtu(meas, t, h, k)
    \/ /\ pc = "tick_max"
       /\ \E ir \in IrValues, b \in BOOLEAN, k \in 0..5 :
             TickMax(ir, b, 0, 0, 0, k)
    \/ TickMaxSkip
    \/ /\ pc = "tick_acc"
       /\ \E avail \in BOOLEAN, s \in AccelValues, k \in 0..7 :
             TickAcc(avail, s, k)
    \/ \E k \in 0..6 : TickSys(TRUE, k)
    \/ Advance(TICK_MS + 1)

SpecLong == InitLong /\ [][NextLong]_vars

\* The estimator alone.  The first tick began at GateBase - TICK_MS - 1 and
\* detected a beat TICK_MS + 1 ms later, at GateBase, too slow to be stored;
\* the second tick detects a beat delta ms after it, for every delta in
\* 0..MaxDelta.
GateBase == 4012

InitGate ==
    /\ horizon = GateBase + MaxDelta
    /\ pc = "tick_max"
    /\ ret = "sched"
    /\ clock \in GateBase..(GateBase + MaxDelta)
    /\ wifi = TRUE
    /\ connected = TRUE
    /\ htu21d_ok = FALSE /\ max30102_ok = TRUE /\ accel_ok = FALSE
    /\ rates = [i \in 0..(RATE_SIZE - 1) |-> 0]
    /\ rateSpot = 0
    /\ lastBeat = GateBase
    /\ beatsPerMinute = Bpm(GateBase)
    /\ beatAvg = 0
    /\ lastMsg = clock
    /\ contador = 2
    /\ step = "htu"
    /\ beat = FALSE
    /\ pubs = <<>>
    /\ upto = 0
    /\ sent = <<>>
    /\ online = TRUE
    /\ tickAt = clock
    /\ prevTickAt = GateBase - TICK_MS - 1

NextGate ==
    \E ir \in IrValues, ub \in InfToInt \cup {0}, k \in 0..5 :
        TickMax(ir, TRUE, 0, 0, ub, k)

SpecGate == InitGate /\ [][NextGate]_vars

\* The motion classifier alone: one accelerometer section of a tick, for
\* every sample of a grid that holds the 0.5 g limits and their neighbours.
OrientAxis ==
    {i * GridStep : i \in (-GridSpan)..GridSpan}
        \cup {FLAT_LIMIT + 1, -FLAT_LIMIT - 1}
OrientGrid == OrientAxis \X OrientAxis \X OrientAxis

InitOrient ==
    /\ horizon = MaxTime
    /\ pc = "tick_acc"
    /\ ret = "bringup"
    /\ clock = TICK_MS + WIFI_SETTLE_MS + 1
    /\ wifi = TRUE
    /\ connected = TRUE
    /\ htu21d_ok = FALSE /\ max30102_ok = FALSE /\ accel_ok = TRUE
    /\ rates = [i \in 0..(RATE_SIZE - 1) |-> 0]
    /\ rateSpot = 0
    /\ lastBeat = 0
    /\ beatsPerMinute = [n |-> 0, d |-> 1]
    /\ beatAvg = 0
    /\ lastMsg = clock
    /\ contador = 1
    /\ step = "max"
    /\ beat = FALSE
    /\ pubs = <<>>
    /\ upto = 0
    /\ sent = <<>>
    /\ online = TRUE
    /\ tickAt = clock
    /\ prevTickAt = -1

NextOrient == \E s \in OrientGrid, k \in 0..7 : TickAcc(TRUE, s, k)

SpecOrient == InitOrient /\ [][NextOrient]_vars

\* The estimator after the beat of InitGate and n more, one per tick and
\* TICK_MS + 1 ms apart (29 BPM, stored): the next tick detects a beat delta
\* ms after the last one, for every delta in 0..MaxDelta.
InitFrame ==
    \E n \in 0..RATE_SIZE :
        LET base == GateBase + n * (TICK_MS + 1)
        IN  /\ horizon = base + MaxDelta
            /\ pc = "tick_max"
            /\ ret = "sched"
            /\ clock \in base..(base + MaxDelta)
            /\ wifi = TRUE
            /\ connected = TRUE
            /\ htu21d_ok = FALSE /\ max30102_ok = TRUE /\ accel_ok = FALSE
            /\ rates = [i \in 0..(RATE_SIZE - 1) |-> IF i < n THEN 29 ELSE 0]
            /\ rateSpot = n % RATE_SIZE
            /\ lastBeat = base
            /\ beatsPerMinute = Bpm(IF n = 0 THEN GateBase ELSE TICK_MS + 1)
            /\ beatAvg = Avg(rates)
            /\ lastMsg = clock
            /\ contador = n + 2
            /\ step = "htu"
            /\ beat = FALSE
            /\ pubs = <<>>
            /\ upto = 0
            /\ sent = <<>>
            /\ online = TRUE
            /\ tickAt = clock
            /\ prevTickAt = base - TICK_MS - 1

NextFrame ==
    \E ub \in InfToInt \cup {0}, k \in 0..5 :
        TickMax(80000, TRUE, 0, 0, ub, k)

SpecFrame == InitFrame /\ [][NextFrame]_vars

\* Long sessions: nominal timing as in SpecLong, every sensor read succeeds
\* with the same values and no beat is detected; the bring-up results and
\* the losses of the broker connection are free.
InitCadence == horizon = CadenceTime /\ Boot

NextCadence ==
    \/ SetupWifi(0, TRUE)
    \/ \E k \in 0..1 : ConnectOk(k)
    \/ ReconnectReturn
    \/ LinkDrop
    \/ /\ pc = "bringup"
       /\ \E h, m, a \in BOOLEAN, k \in 0..6 : Bringup(h, m, a, k)
    \/ \E alive \in BOOLEAN : LoopCheck(alive)
    \/ LoopIdle
    \/ \E k \in 0..2 : TickHead(k)
    \/ \E k \in 0..2 : TickHtu(TRUE, Num(2150), Num(4000), k)
    \/ \E k \in 0..5 : TickMax(80000, FALSE, 0, 0, 0, k)
    \/ TickMaxSkip
    \/ \E k \in 0..7 : TickAcc(TRUE, <<10, -20, 1000>>, k)
    \/ \E k \in 0..6 : TickSys(TRUE, k)
    \/ Advance(TICK_MS + 1)

SpecCadence == InitCadence /\ [][NextCadence]_vars

\* ------------------------------------------------------------ claims
TickSteps == {"tick", "htu", "max", "acc", "sys"}
HtuTopics == {"sensores/temperatura", "sensores/humedad"}
MaxTopics == {"sensores/ir_value", "sensores/bpm", "sensores/bpm_avg",
              "sensores/finger_status", "sensores/heart_data"}
AccTopics == {"sensores/accel_x", "sensores/accel_y", "sensores/accel_z",
              "sensores/accel_mag", "sensores/orientacion",
              "sensores/movimiento", "sensores/accel_datos"}
RingSum == rates[0] + rates[1] + rates[2] + rates[3]

\* C1: nothing reaches the broker while the link is not broker-connected:
\* of the publish calls of a step, at most those issued while the link was up
\* are transmitted, and nothing is transmitted before the first successful
\* broker connect of the session.
C1_PublishAfterConnect ==
    /\ Len(sent) <= upto
    /\ (sent # <<>> => online)

\* A tick section whose publish calls were all dropped, the link being lost.
C1_Witness ==
    /\ step \in TickSteps
    /\ online
    /\ Len(pubs) >= 2
    /\ sent = <<>>
    /\ ~connected

\* C2 (amended): when the estimator accepts a beat, the BPM 60000/delta is
\* strictly between 20 and 255 and the slot at the write index receives its
\* integer part, a value from 20 to 254.
C2_StoredTruncated ==
    [][rateSpot' # rateSpot =>
         LET q == beatsPerMinute'
         IN  /\ q.d > 0
             /\ q.n > BPM_MIN * q.d
             /\ q.n < BPM_MAX * q.d
             /\ rates'[rateSpot] = q.n \div q.d
             /\ rates'[rateSpot] >= BPM_MIN
             /\ rates'[rateSpot] < BPM_MAX]_vars

\* C2 as claimed: the value written on an accepted beat is strictly greater
\* than 20 and strictly less than 255.
C2_StoredStrict ==
    [][rateSpot' # rateSpot =>
         (rates'[rateSpot] > BPM_MIN /\ rates'[rateSpot] < BPM_MAX)]_vars

\* An accepted beat whose BPM lies between 20 and 21: the slot holds 20.
C2_Witness ==
    /\ step = "max"
    /\ beat
    /\ rateSpot = 1
    /\ rates[0] = BPM_MIN
    /\ beatsPerMinute.n > BPM_MIN * beatsPerMinute.d

\* C3 (amended): every slot of the ring buffer holds 0, its value at boot, or
\* a value from 20 to 254.
C3_RingRange ==
    \A i \in 0..(RATE_SIZE - 1) :
        rates[i] = 0 \/ (rates[i] >= BPM_MIN /\ rates[i] < BPM_MAX)

\* C3 as claimed: no slot holds a value <= 20 or >= 255.
C3_RingStrict ==
    \A i \in 0..(RATE_SIZE - 1) : rates[i] > BPM_MIN /\ rates[i] < BPM_MAX

\* A slot written with 20 next to a slot never written.
C3_Witness ==
    /\ \E i \in 0..(RATE_SIZE - 1) : rates[i] = BPM_MIN
    /\ \E i \in 0..(RATE_SIZE - 1) : rates[i] = 0
    /\ \E i \in 0..(RATE_SIZE - 1) : rates[i] > BPM_MIN

\* C4 (amended): bpm_avg is the integer quotient of the sum of the 4 slots
\* by 4, slots still zero included.
C4_AvgQuotient == beatAvg = RingSum \div RATE_SIZE

\* C4 as claimed: bpm_avg equals the arithmetic mean of the 4 slots.
C4_AvgMean == RATE_SIZE * beatAvg = RingSum

\* The ring buffer has been written 4 times.
C4_Witness ==
    /\ \A i \in 0..(RATE_SIZE - 1) : rates[i] # 0
    /\ rateSpot = 0
    /\ beatAvg > 0

\* C5: with ir_value = 80000 and the estimator run once per tick, a detected
\* beat publishes an instantaneous BPM of 60, and bpm_avg is 60 once 4 beats
\* have been accepted.
C5_RestingSixty ==
    (step = "max" /\ beat /\ pubs[1] = Msg("sensores/ir_value", "80000")) =>
        /\ pubs[2] = Msg("sensores/bpm", "60")
        /\ ((\A i \in 0..(RATE_SIZE - 1) : rates[i] # 0) => beatAvg = 60)

\* C6: if the station never associates, the device still reaches the
\* scheduler loop.
C6_LoopWithoutNetwork == ([]~wifi) => <>(pc = "loop")

\* C7: a sensor whose begin() failed has no reading published on any tick,
\* its "no encontrado" error is published by the one bring-up step and by no
\* other step, and every tick whose counter is a multiple of 5 publishes
\* ERROR as its sensores/estado_* echo.
Unhealthy(ok, readings, notFound, estado) ==
    /\ (step \in TickSteps /\ ~ok) => Topics(pubs) \cap readings = {}
    /\ CountMsg(pubs, Msg("sensores/error", notFound))
         = (IF step = "bringup" /\ ~ok THEN 1 ELSE 0)
    /\ (step = "sys" /\ contador % ESTADO_EVERY = 0) =>
         CountMsg(pubs, Msg(estado, IF ok THEN "OK" ELSE "ERROR")) = 1
    /\ (step = "sys" /\ contador % ESTADO_EVERY # 0) => Count(pubs, estado) = 0

C7_UnhealthySilent ==
    /\ [](/\ Unhealthy(htu21d_ok, HtuTopics, "HTU21D no encontrado",
                       "sensores/estado_htu21d")
          /\ Unhealthy(max30102_ok, MaxTopics, "MAX30105 no encontrado",
                       "sensores/estado_max30105")
          /\ Unhealthy(accel_ok, AccTopics, "MMA8452Q no encontrado",
                       "sensores/estado_mma8452q"))
    /\ [][/\ pc' = "bringup" => contador = 0 /\ pc = "reconnect"
          /\ step = "bringup" => step' # "bringup"
          /\ pc \notin {"setup_wifi", "reconnect", "bringup"} => flags' = flags
         ]_vars

\* The 5th tick of a session whose environment sensor failed to initialize.
C7_Witness ==
    /\ step = "sys"
    /\ contador = ESTADO_EVERY
    /\ ~htu21d_ok /\ max30102_ok /\ accel_ok
    /\ CountMsg(pubs, Msg("sensores/estado_htu21d", "ERROR")) = 1

\* C8: two consecutive acquisition ticks are at least 2000 ms apart, also
\* when reconnect() blocked between them: the late tick fires once.
C8_TickSpacing == prevTickAt >= 0 => tickAt - prevTickAt >= TICK_MS

\* reconnect() blocked in a backoff for more than two tick intervals; the
\* late tick fired once, and the scheduler iteration after it fired none.
C8_Witness ==
    /\ step = "idle"
    /\ prevTickAt >= 0
    /\ tickAt - prevTickAt >= 5000
    /\ clock = tickAt

\* C9: the tick counter changes only in a tick, where it is incremented by
\* one and published; a reconnect leaves it as it was.
C9_CounterMonotonic ==
    [][/\ contador' # contador => pc = "sched" /\ step' = "tick"
       /\ (pc = "sched" /\ pc' = "tick_htu") =>
            /\ contador' = contador + 1
            /\ pubs'[1] = Msg("sensores/contador", ToString(contador + 1))
       /\ pc \in {"reconnect", "backoff"} => contador' = contador]_vars

\* reconnect() returns to loop() after two ticks, the counter still at 2.
C9_Witness ==
    /\ step = "reconnected"
    /\ ret = "sched"
    /\ pc = "sched"
    /\ contador = 2

\* C10: a sensor read that fails or yields an invalid value publishes exactly
\* one sensores/error in that tick; a read that succeeds publishes none.
C10_SingleError ==
    /\ (step = "htu" /\ htu21d_ok) =>
         Count(pubs, "sensores/error")
           = (IF HtuTopics \subseteq Topics(pubs) THEN 0 ELSE 1)
    /\ (step = "acc" /\ accel_ok) =>
         Count(pubs, "sensores/error")
           = (IF "sensores/accel_datos" \in Topics(pubs) THEN 0 ELSE 1)

\* C11: an axis value outside [-4, 4] g appears in no publication of the
\* tick: neither its own sensores/accel_* topic nor the combined
\* sensores/accel_datos object of the sample carries it.
OutOfRange(v) == v < -ACCEL_LIMIT \/ v > ACCEL_LIMIT

C11_AxisSuppressed ==
    step = "acc" =>
        \A s \in AccelValues :
            (\E i \in 1..3 : OutOfRange(s[i])) =>
                /\ \A mag \in Magnitud(s[1], s[2], s[3]) :
                      CountMsg(pubs, Msg("sensores/accel_datos",
                                         AccelJson(s[1], s[2], s[3], mag))) = 0
                /\ OutOfRange(s[1]) =>
                     CountMsg(pubs, Msg("sensores/accel_x", Fixed(s[1], 3))) = 0

\* C12: a tick that reads the optical sensor publishes finger_status
\* "no_detectado" exactly when the IR value it read (and published) is below
\* 50000, and "detectado" otherwise, whether or not a beat was detected.
C12_FingerThreshold ==
    (step = "max" /\ max30102_ok) =>
        /\ Len(pubs) = 5
        /\ \E ir \in IrValues : pubs[1] = Msg("sensores/ir_value", ToString(ir))
        /\ Count(pubs, "sensores/finger_status") = 1
        /\ \A ir \in IrValues :
              pubs[1] = Msg("sensores/ir_value", ToString(ir)) =>
                  /\ pubs[4].topic = "sensores/finger_status"
                  /\ pubs[4].payload \in {"no_detectado", "detectado"}
                  /\ (pubs[4].payload = "no_detectado") <=> (ir < 50000)

\* A beat accepted in a tick that read 49999.
C12_Witness ==
    /\ step = "max"
    /\ beat
    /\ rateSpot = 1
    /\ pubs[1] = Msg("sensores/ir_value", "49999")
    /\ pubs[4] = Msg("sensores/finger_status", "no_detectado")

\* C13: for every sample (x, y, z) of the grid the accelerometer section
\* publishes exactly one sensores/orientacion, which is boca_arriba exactly
\* when |z| > |x|, |z| > |y| and z > 0.5 g, boca_abajo exactly when
\* |z| > |x|, |z| > |y| and z < -0.5 g, and indefinida otherwise.
Labelled(l) == CountMsg(pubs, Msg("sensores/orientacion", l)) = 1
Sampled(s) ==
    \E mag \in Magnitud(s[1], s[2], s[3]) :
        pubs[Len(pubs)] = Msg("sensores/accel_datos",
                              AccelJson(s[1], s[2], s[3], mag))

C13_Orientation ==
    step = "acc" =>
        /\ Count(pubs, "sensores/orientacion") = 1
        /\ \E s \in OrientGrid : Sampled(s)
        /\ \A s \in OrientGrid :
              Sampled(s) =>
                  LET x == s[1]
                      y == s[2]
                      z == s[3]
                      zDominates == Abs(z) > Abs(x) /\ Abs(z) > Abs(y)
                  IN  /\ Labelled("boca_arriba") <=> (zDominates /\ z > 500)
                      /\ Labelled("boca_abajo") <=> (zDominates /\ z < -500)
                      /\ Labelled("indefinida") <=>
                           ~(zDominates /\ (z > 500 \/ z < -500))

\* The sample (0.5, -0.5, -0.501) g: z dominates by 1 milli-g and is just
\* below -0.5 g.
C13_Witness ==
    /\ step = "acc"
    /\ Labelled("boca_abajo")
    /\ Sampled(<<500, -500, -501>>)

\* C14: a tick whose IR value is below the finger threshold (finger_status
\* "no_detectado") inserts no beat: the ring buffer, the write index and bpm_avg
\* keep their values.
C14_NoBeatWithoutFinger ==
    [][(/\ pc = "tick_max"
        /\ max30102_ok
        /\ step' = "max"
        /\ pubs'[4] = Msg("sensores/finger_status", "no_detectado")) =>
           /\ rates' = rates
           /\ rateSpot' = rateSpot
           /\ beatAvg' = beatAvg]_vars

\* C15: a scheduler iteration fires the acquisition tick exactly when at
\* least 2000 ms have passed since the last tick; in particular it fires at
\* exactly 2000 ms.
C15_TickAtLeast ==
    [][(pc = "sched" /\ pc' # "sched") =>
           ((pc' = "tick_htu") <=> (clock - lastMsg >= 2000))]_vars

\* C16: reconnect() returns only when the client is connected; a failed
\* connect is followed by the 5 s backoff before the next attempt; every
\* successful connect, the first and each later one, publishes exactly one
\* sensores/status, the first payload after the connection, and nothing else
\* publishes on that topic.
Online == Msg("sensores/status",
              "ESP32 conectado - Iniciando lecturas de sensores")

C16_ReconnectLoop ==
    /\ [](Count(pubs, "sensores/status") = (IF step = "connect" THEN 1 ELSE 0))
    /\ [](step = "connect" => pubs = <<Online>>)
    /\ [][/\ (pc = "reconnect" /\ pc' \notin {"reconnect", "backoff"}) =>
               connected /\ connected' /\ pc' = ret
          /\ (~connected /\ connected') =>
               /\ pc = "reconnect" /\ pc' = "reconnect"
               /\ step' = "connect"
               /\ sent' = <<Online>>
          /\ (pc = "reconnect" /\ step' = "connect_failed") => pc' = "backoff"
          /\ pc' = "backoff" => pc = "reconnect" /\ ~connected
          /\ pc = "backoff" =>
               /\ pc' = "reconnect"
               /\ clock' = clock + 5000
               /\ pubs' = <<>>
         ]_vars

\* A reconnection from loop(), after a tick, a failed connect and its
\* backoff: the status notification is sent again.
C16_Witness ==
    /\ step = "connect"
    /\ ret = "sched"
    /\ contador >= 1
    /\ clock >= tickAt + 5000
    /\ connected
    /\ sent = <<Online>>

\* C17: consecutive ticks carry consecutive counter values, and a tick
\* publishes sensores/resumen exactly when its counter is 1 more than a
\* multiple of 10 and the three sensores/estado_* exactly when its counter is
\* a multiple of 5: once in every 10, respectively 5, consecutive ticks, and
\* on no other tick.
EstadoTopics == {"sensores/estado_htu21d", "sensores/estado_max30105",
                 "sensores/estado_mma8452q"}

C17_Cadence ==
    /\ [](step \in TickSteps =>
            /\ Count(pubs, "sensores/resumen")
                 = (IF step = "tick" /\ contador % 10 = 1 THEN 1 ELSE 0)
            /\ \A t \in EstadoTopics :
                 Count(pubs, t)
                   = (IF step = "sys" /\ contador % 5 = 0 THEN 1 ELSE 0))
    /\ [][(pc = "sched" /\ pc' = "tick_htu") =>
             step' = "tick" /\ contador' = contador + 1]_vars
    /\ [][(step = "acc" /\ step' # "acc") => step' = "sys"]_vars

\* The eleventh tick re-publishes the summary, one tick after the second
\* estado echo.
C17_Witness ==
    /\ step = "tick"
    /\ contador = 11
    /\ Count(pubs, "sensores/resumen") = 1

\* C18: a detected beat sets the instantaneous BPM to 60000 / delta and the
\* last-beat time to now.  If the BPM is outside (20, 255) the ring buffer, the
\* write index and bpm_avg are unchanged and sensores/bpm carries the integer
\* part of the out-of-range BPM; if it is inside, the slot at the old write
\* index is written, no other slot changes, and the write index becomes
\* (old + 1) mod 4, within 0..3.
C18_BeatFrame ==
    [][(pc = "tick_max" /\ step' = "max" /\ beat') =>
          LET q == beatsPerMinute'
              inside == q.d > 0 /\ q.n > 20 * q.d /\ q.n < 255 * q.d
          IN  /\ q = [n |-> 60000, d |-> clock' - lastBeat]
              /\ lastBeat' = clock'
              /\ pubs'[2].topic = "sensores/bpm"
              /\ q.d > 0 => pubs'[2].payload = ToString(q.n \div q.d)
              /\ ~inside =>
                   /\ rates' = rates
                   /\ rateSpot' = rateSpot
                   /\ beatAvg' = beatAvg
                   /\ q.d > 0 => (q.n \div q.d <= 20 \/ q.n \div q.d >= 255)
              /\ inside =>
                   /\ \A i \in 0..3 : i # rateSpot => rates'[i] = rates[i]
                   /\ rates'[rateSpot] = q.n \div q.d
                   /\ rateSpot' = (rateSpot + 1) % 4
                   /\ rateSpot' \in 0..3]_vars

\* A beat 235 ms after the third accepted one: 255.3 BPM is rejected and
\* published as 255, the ring buffer is as before.
C18_Witness ==
    /\ step = "max"
    /\ beat
    /\ rateSpot = 3
    /\ rates = [i \in 0..3 |-> IF i < 3 THEN 29 ELSE 0]
    /\ beatAvg = 21
    /\ lastBeat = clock
    /\ pubs[2] = Msg("sensores/bpm", "255")

\* C19: the health flags are written by bring-up only, and bring-up does not
\* run again once ticks have started; every tick reads each healthy sensor
\* (its section publishes readings or an error, also right after a failed
\* read) and reads no unhealthy one (its section publishes nothing).
C19_FlagsFrozen ==
    /\ [][pc # "bringup" => flags' = flags]_vars
    /\ [][tickAt >= 0 => pc' # "bringup"]_vars
    /\ [](step = "htu" => (htu21d_ok <=> pubs # <<>>))
    /\ [](step = "max" => (max30102_ok <=> pubs # <<>>))
    /\ [](step = "acc" => (accel_ok <=> pubs # <<>>))

\* The third tick of a session reads the environment sensor, the measurement
\* fails, and the flag is still set.
C19_Witness ==
    /\ step = "htu"
    /\ contador = 3
    /\ htu21d_ok
    /\ pubs = <<Msg("sensores/error", "HTU21D: fallo en medicion")>>

\* C20: with ticks that take no time, every beat delta is greater than
\* 2000 ms (the first is measured from time 0), so the instantaneous BPM, every
\* ring-buffer slot and bpm_avg are below 30 in every reachable state.
C20_BpmBelowThirty ==
    /\ [](/\ beatsPerMinute.d > 0
          /\ beatsPerMinute.n < 30 * beatsPerMinute.d
          /\ \A i \in 0..3 : rates[i] < 30
          /\ beatAvg < 30)
    /\ [][beat' => clock' - lastBeat > 2000]_vars

\* Four beats on four consecutive ticks: the ring buffer is full of 29s.
C20_Witness ==
    /\ step = "max"
    /\ beat
    /\ \A i \in 0..3 : rates[i] = 29
    /\ beatAvg = 29
    /\ beatsPerMinute = [n |-> 60000, d |-> 2001]

====
